---- MODULE Spec2Model ----
(***************************************************************************)
(* Model of updater/install.c: the edify builtins mount, unmount, format,  *)
(* delete, delete_recursive, show_progress, package_extract, symlink,      *)
(* set_perm and set_perm_recursive.                                        *)
(*                                                                         *)
(* The evaluator calls the builtins one at a time.  Each action below is   *)
(* one whole invocation of one builtin.  The state after an action holds   *)
(* what that invocation did: which argument nodes it evaluated, how often  *)
(* it released each evaluated string, which driver calls it made (in       *)
(* order), which messages it reported, and what it returned.  The pending  *)
(* error slot (SetError) is the only state that survives an invocation.    *)
(*                                                                         *)
(* Strings are sequences of one-character strings, so that strlen, strcmp  *)
(* and strtoul are computed character by character.  The evaluated string  *)
(* of argument i is the heap block i of the invocation; a result is either *)
(* NULL, one of those blocks (pointer identity) or a fresh strdup block.   *)
(***************************************************************************)
EXTENDS Integers, Sequences, FiniteSets, TLC

\* ------------------------------------------------------------ bounds
\* Largest argc of a call to delete / delete_recursive.
MaxDelArgc == 10
\* delete is called with every pattern of removal outcomes up to this argc,
\* and with at most one failing removal above it.
MaxAnyRm == 3
\* Arguments passed beyond the count a builtin of fixed arity asks for.
MaxExtra == 1
\* Most sources of a symlink call and most target paths of a set_perm call.
MaxTargets == 2
\* Latest reading of the wall clock.
MaxClock == 1

\* ------------------------------------------------------------ environment
\* The wall clock.
VARIABLE clock

\* ------------------------------------------------------------ strings
EmptyStr == <<>>
MTD == <<"M", "T", "D">>
Vfat == <<"v", "f", "a", "t">>
Boot == <<"b", "o", "o", "t">>
PathA == <<"/", "a">>
PathB == <<"/", "b">>
MntX == <<"/", "m">>

\* strlen(s) == 0
IsEmpty(s) == Len(s) = 0

\* strcmp(a, b) == 0
StrEq(a, b) == a = b

\* ------------------------------------------------------------ argument nodes
\* An Expr either evaluates to a string or fails to evaluate.
Ok(s) == [ok |-> TRUE, val |-> s]
Fail == [ok |-> FALSE, val |-> EmptyStr]
Nodes(S) == {Ok(s) : s \in S} \cup {Fail}

\* ------------------------------------------------------------ results
\* NULL
Abort == [kind |-> "abort", idx |-> 0, str |-> EmptyStr]
\* the evaluated string of argument i, returned as it is
ArgResult(i, s) == [kind |-> "arg", idx |-> i, str |-> s]
\* strdup(s)
NewResult(s) == [kind |-> "new", idx |-> 0, str |-> s]
\* the call has not returned (before a call, or the process died or hangs)
NoResult == [kind |-> "none", idx |-> 0, str |-> EmptyStr]

\* ------------------------------------------------------------ messages
NoError == [kind |-> "none", fn |-> "", expected |-> 0, plus |-> FALSE,
            actual |-> 0, what |-> "", token |-> EmptyStr]
\* "%s() expects <expected>[+] arg(s), got %d"
ArityMsg(name, expected, plus, actual) ==
    [kind |-> "arity", fn |-> name, expected |-> expected, plus |-> plus,
     actual |-> actual, what |-> "", token |-> EmptyStr]
\* "<what> argument to %s() can't be empty"
EmptyMsg(name, what) ==
    [kind |-> "empty", fn |-> name, expected |-> 0, plus |-> FALSE,
     actual |-> 0, what |-> what, token |-> EmptyStr]
\* "%s: \"%s\" not a valid <what>"
InvalidMsg(name, token, what) ==
    [kind |-> "invalid", fn |-> name, expected |-> 0, plus |-> FALSE,
     actual |-> 0, what |-> what, token |-> token]
\* the message the evaluator records when a node fails to evaluate
EvalMsg == [kind |-> "eval", fn |-> "", expected |-> 0, plus |-> FALSE,
            actual |-> 0, what |-> "", token |-> EmptyStr]

\* ErrorAbort: formats the message, SetError(buffer), returns NULL.  The
\* value is the list of messages the invocation has handed to SetError.
ErrorAbort(msg) == <<msg>>

\* ------------------------------------------------------------ driver calls
Op(op, args, ok) == [op |-> op, args |-> args, ok |-> ok]

\* ------------------------------------------------------------ outcomes
\* What one invocation did.  evald: the argument indices whose evaluation
\* succeeded; freed[i]: how many times the string of argument i was passed
\* to free, where 2 stands for twice or more; status: "returned", or how
\* the process ended otherwise ("crashed", "hung").
Outcome(evald, freed, result, log, reports, status) ==
    [evald |-> evald, freed |-> freed, result |-> result, log |-> log,
     reports |-> reports, status |-> status]

NoFrees(n) == [i \in 1..n |-> 0]
FreeOnce(S, n) == [i \in 1..n |-> IF i \in S THEN 1 ELSE 0]

\* return ErrorAbort(...) before any argument is evaluated
ArityAbort(n, msg) ==
    Outcome({}, NoFrees(n), Abort, <<>>, ErrorAbort(msg), "returned")

\* ------------------------------------------------------------ evaluation
\* ReadArgs / ReadVarArgs over the nodes av[from..to]: evaluates them left
\* to right; on the first failure releases the strings evaluated so far
\* and reports failure.
ReadArgs(av, from, to, n) ==
    LET bad == IF \E i \in from..to : ~av[i].ok
               THEN CHOOSE i \in from..to :
                        ~av[i].ok /\ \A j \in from..(i-1) : av[j].ok
               ELSE 0
    IN  IF bad = 0
        THEN [ok |-> TRUE, evald |-> from..to, freed |-> NoFrees(n),
              reports |-> <<>>]
        ELSE [ok |-> FALSE, evald |-> from..(bad-1),
              freed |-> FreeOnce(from..(bad-1), n), reports |-> <<EvalMsg>>]

\* `return NULL` after ReadArgs failed
EvalAbort(ra) ==
    Outcome(ra.evald, ra.freed, Abort, <<>>, ra.reports, "returned")

\* ------------------------------------------------------------ mount
\* MountDone with mount_point released whatever the result is.
MountDone_mut(result, log, reports) ==
    Outcome(1..3, [i \in 1..3 |-> 1], result, log, reports, "returned")

\* done: free(type); free(location);
\*       if (result != mount_point) free(mount_point); return result;
MountDone(result, log, reports) ==
    Outcome(1..3,
            [i \in 1..3 |-> IF i = 3 /\ result.kind = "arg" /\ result.idx = 3
                            THEN 0 ELSE 1],
            result, log, reports, "returned")

\* MountFn with the directory made only once the partition is known, right
\* before the mount call.
MountFn_late_mkdir_mut(name, n, av, mk, found, mnt) ==
    IF n # 3 THEN ArityAbort(n, ArityMsg(name, 3, FALSE, n))
    ELSE
    LET ra == ReadArgs(av, 1, 3, n) IN
    IF ~ra.ok THEN EvalAbort(ra)
    ELSE
    LET type == av[1].val
        location == av[2].val
        mount_point == av[3].val
        mkd == <<Op("mkdir", <<mount_point>>, mk)>>
        scan == <<Op("mtd_scan_partitions", <<>>, TRUE),
                  Op("mtd_find_partition_by_name", <<location>>, found)>>
    IN  IF IsEmpty(type)
        THEN MountDone(Abort, <<>>, ErrorAbort(EmptyMsg(name, "type")))
        ELSE IF IsEmpty(location)
        THEN MountDone(Abort, <<>>, ErrorAbort(EmptyMsg(name, "location")))
        ELSE IF IsEmpty(mount_point)
        THEN MountDone(Abort, <<>>, ErrorAbort(EmptyMsg(name, "mount_point")))
        ELSE IF StrEq(type, MTD)
        THEN IF ~found
             THEN MountDone(NewResult(EmptyStr), scan, <<>>)
             ELSE MountDone(IF mnt THEN ArgResult(3, mount_point)
                                   ELSE NewResult(EmptyStr),
                            scan \o mkd \o
                            <<Op("mtd_mount_partition",
                                 <<location, mount_point>>, mnt)>>,
                            <<>>)
        ELSE MountDone(IF mnt THEN ArgResult(3, mount_point)
                              ELSE NewResult(EmptyStr),
                       mkd \o <<Op("mount", <<location, mount_point, type>>,
                                   mnt)>>,
                       <<>>)

\* MountFn with the directory made as soon as the arguments are read,
\* before they are checked for emptiness.
MountFn_early_mkdir_mut(name, n, av, mk, found, mnt) ==
    IF n # 3 THEN ArityAbort(n, ArityMsg(name, 3, FALSE, n))
    ELSE
    LET ra == ReadArgs(av, 1, 3, n) IN
    IF ~ra.ok THEN EvalAbort(ra)
    ELSE
    LET type == av[1].val
        location == av[2].val
        mount_point == av[3].val
        mkd == <<Op("mkdir", <<mount_point>>, mk)>>
        scan == <<Op("mtd_scan_partitions", <<>>, TRUE),
                  Op("mtd_find_partition_by_name", <<location>>, found)>>
    IN  IF IsEmpty(type)
        THEN MountDone(Abort, mkd, ErrorAbort(EmptyMsg(name, "type")))
        ELSE IF IsEmpty(location)
        THEN MountDone(Abort, mkd, ErrorAbort(EmptyMsg(name, "location")))
        ELSE IF IsEmpty(mount_point)
        THEN MountDone(Abort, mkd, ErrorAbort(EmptyMsg(name, "mount_point")))
        ELSE IF StrEq(type, MTD)
        THEN IF ~found
             THEN MountDone(NewResult(EmptyStr), mkd \o scan, <<>>)
             ELSE MountDone(IF mnt THEN ArgResult(3, mount_point)
                                   ELSE NewResult(EmptyStr),
                            mkd \o scan \o
                            <<Op("mtd_mount_partition",
                                 <<location, mount_point>>, mnt)>>,
                            <<>>)
        ELSE MountDone(IF mnt THEN ArgResult(3, mount_point)
                              ELSE NewResult(EmptyStr),
                       mkd \o <<Op("mount", <<location, mount_point, type>>,
                                   mnt)>>,
                       <<>>)

\* mk, found, mnt: the outcomes of mkdir, of the partition lookup and of
\* the selected mount call.
MountFn(name, n, av, mk, found, mnt) ==
    IF n # 3 THEN ArityAbort(n, ArityMsg(name, 3, FALSE, n))
    ELSE
    LET ra == ReadArgs(av, 1, 3, n) IN
    IF ~ra.ok THEN EvalAbort(ra)
    ELSE
    LET type == av[1].val
        location == av[2].val
        mount_point == av[3].val
        mkd == <<Op("mkdir", <<mount_point>>, mk)>>
        scan == <<Op("mtd_scan_partitions", <<>>, TRUE),
                  Op("mtd_find_partition_by_name", <<location>>, found)>>
    IN  IF IsEmpty(type)
        THEN MountDone(Abort, <<>>, ErrorAbort(EmptyMsg(name, "type")))
        ELSE IF IsEmpty(location)
        THEN MountDone(Abort, <<>>, ErrorAbort(EmptyMsg(name, "location")))
        ELSE IF IsEmpty(mount_point)
        THEN MountDone(Abort, <<>>, ErrorAbort(EmptyMsg(name, "mount_point")))
        ELSE IF StrEq(type, MTD)
        THEN IF ~found
             THEN MountDone(NewResult(EmptyStr), mkd \o scan, <<>>)
             ELSE IF ~mnt
             THEN MountDone(NewResult(EmptyStr),
                            mkd \o scan \o
                            <<Op("mtd_mount_partition",
                                 <<location, mount_point>>, FALSE)>>,
                            <<>>)
             ELSE MountDone(ArgResult(3, mount_point),
                            mkd \o scan \o
                            <<Op("mtd_mount_partition",
                                 <<location, mount_point>>, TRUE)>>,
                            <<>>)
        ELSE IF ~mnt
             THEN MountDone(NewResult(EmptyStr),
                            mkd \o <<Op("mount",
                                        <<location, mount_point, type>>,
                                        FALSE)>>,
                            <<>>)
             ELSE MountDone(ArgResult(3, mount_point),
                            mkd \o <<Op("mount",
                                        <<location, mount_point, type>>,
                                        TRUE)>>,
                            <<>>)

\* ------------------------------------------------------------ unmount
\* done: if (result != mount_point) free(mount_point); return result;
UnmountDone(result, log, reports) ==
    Outcome({1},
            [i \in 1..1 |-> IF result.kind = "arg" /\ result.idx = 1
                            THEN 0 ELSE 1],
            result, log, reports, "returned")

\* found, umnt: the outcomes of the volume lookup and of the unmount call.
UnmountFn(name, n, av, found, umnt) ==
    IF n # 1 THEN ArityAbort(n, ArityMsg(name, 1, FALSE, n))
    ELSE
    LET ra == ReadArgs(av, 1, 1, n) IN
    IF ~ra.ok THEN EvalAbort(ra)
    ELSE
    LET mount_point == av[1].val
        scan == <<Op("scan_mounted_volumes", <<>>, TRUE),
                  Op("find_mounted_volume_by_mount_point",
                     <<mount_point>>, found)>>
    IN  IF IsEmpty(mount_point)
        THEN UnmountDone(Abort, <<>>,
                         ErrorAbort(EmptyMsg("unmount", "mount_point")))
        ELSE IF ~found
        THEN UnmountDone(NewResult(EmptyStr), scan, <<>>)
        ELSE UnmountDone(ArgResult(1, mount_point),
                         scan \o <<Op("unmount_mounted_volume",
                                      <<mount_point>>, umnt)>>,
                         <<>>)

\* ------------------------------------------------------------ format
\* done: free(type); if (result != location) free(location); return result;
FormatDone(result, log, reports) ==
    Outcome(1..2,
            [i \in 1..2 |-> IF i = 2 /\ result.kind = "arg" /\ result.idx = 2
                            THEN 0 ELSE 1],
            result, log, reports, "returned")

\* The steps of FormatFn on "MTD" after its arguments were checked, as a
\* function of which results it looks at: with checkclose false the result
\* of the final mtd_write_close is ignored; with closeonfail false a failed
\* erase returns without closing the write context.
FormatMtdVariant(location, found, opened, erased, closed,
                 checkclose, closeonfail) ==
    LET scan == <<Op("mtd_scan_partitions", <<>>, TRUE),
                  Op("mtd_find_partition_by_name", <<location>>, found)>>
        open == <<Op("mtd_write_partition", <<location>>, opened)>>
        erase == <<Op("mtd_erase_blocks", <<location>>, erased)>>
        close == <<Op("mtd_write_close", <<location>>, closed)>>
    IN  IF ~found THEN FormatDone(NewResult(EmptyStr), scan, <<>>)
        ELSE IF ~opened
        THEN FormatDone(NewResult(EmptyStr), scan \o open, <<>>)
        ELSE IF ~erased
        THEN FormatDone(NewResult(EmptyStr),
                        scan \o open \o erase \o
                        (IF closeonfail THEN close ELSE <<>>), <<>>)
        ELSE IF checkclose /\ ~closed
        THEN FormatDone(NewResult(EmptyStr),
                        scan \o open \o erase \o close, <<>>)
        ELSE FormatDone(ArgResult(2, location),
                        scan \o open \o erase \o close, <<>>)

FormatVariant(name, n, av, found, opened, erased, closed,
              checkclose, closeonfail) ==
    IF n # 2 THEN ArityAbort(n, ArityMsg(name, 2, FALSE, n))
    ELSE
    LET ra == ReadArgs(av, 1, 2, n) IN
    IF ~ra.ok THEN EvalAbort(ra)
    ELSE IF IsEmpty(av[1].val)
    THEN FormatDone(Abort, <<>>, ErrorAbort(EmptyMsg(name, "type")))
    ELSE IF IsEmpty(av[2].val)
    THEN FormatDone(Abort, <<>>, ErrorAbort(EmptyMsg(name, "location")))
    ELSE IF StrEq(av[1].val, MTD)
    THEN FormatMtdVariant(av[2].val, found, opened, erased, closed,
                          checkclose, closeonfail)
    ELSE FormatDone(Abort, <<>>, <<>>)

\* FormatFn with the result of the final mtd_write_close ignored.
FormatFn_close_mut(name, n, av, found, opened, erased, closed) ==
    FormatVariant(name, n, av, found, opened, erased, closed, FALSE, TRUE)

\* FormatFn with no mtd_write_close after a failed erase.
FormatFn_leak_mut(name, n, av, found, opened, erased, closed) ==
    FormatVariant(name, n, av, found, opened, erased, closed, TRUE, FALSE)

\* found, opened, erased, closed: the outcomes of the partition lookup, of
\* mtd_write_partition, of mtd_erase_blocks and of mtd_write_close.
FormatFn(name, n, av, found, opened, erased, closed) ==
    IF n # 2 THEN ArityAbort(n, ArityMsg(name, 2, FALSE, n))
    ELSE
    LET ra == ReadArgs(av, 1, 2, n) IN
    IF ~ra.ok THEN EvalAbort(ra)
    ELSE
    LET type == av[1].val
        location == av[2].val
        scan == <<Op("mtd_scan_partitions", <<>>, TRUE),
                  Op("mtd_find_partition_by_name", <<location>>, found)>>
        open == <<Op("mtd_write_partition", <<location>>, opened)>>
        erase == <<Op("mtd_erase_blocks", <<location>>, erased)>>
        close == <<Op("mtd_write_close", <<location>>, closed)>>
    IN  IF IsEmpty(type)
        THEN FormatDone(Abort, <<>>, ErrorAbort(EmptyMsg(name, "type")))
        ELSE IF IsEmpty(location)
        THEN FormatDone(Abort, <<>>, ErrorAbort(EmptyMsg(name, "location")))
        ELSE IF StrEq(type, MTD)
        THEN IF ~found
             THEN FormatDone(NewResult(EmptyStr), scan, <<>>)
             ELSE IF ~opened
             THEN FormatDone(NewResult(EmptyStr), scan \o open, <<>>)
             ELSE IF ~erased
             THEN FormatDone(NewResult(EmptyStr),
                             scan \o open \o erase \o close, <<>>)
             ELSE IF ~closed
             THEN FormatDone(NewResult(EmptyStr),
                             scan \o open \o erase \o close, <<>>)
             ELSE FormatDone(ArgResult(2, location),
                             scan \o open \o erase \o close, <<>>)
        \* unsupported type: only a line on stderr; result is still NULL
        ELSE FormatDone(Abort, <<>>, <<>>)

\* ------------------------------------------------------------ numbers
\* Value of a character as a digit; 99 for a character that is no digit.
DigitVal(c) ==
    CASE c = "0" -> 0 [] c = "1" -> 1 [] c = "5" -> 5 [] c = "7" -> 7
      [] c = "8" -> 8 [] c = "9" -> 9 [] c = "a" -> 10 [] c = "f" -> 15
      [] OTHER -> 99

\* isspace
IsSpace(c) == c = " "

RECURSIVE SkipSpace(_, _)
SkipSpace(s, i) ==
    IF i <= Len(s) /\ IsSpace(s[i]) THEN SkipSpace(s, i + 1) ELSE i

\* First index at or after i whose character is no digit of the base.
RECURSIVE ScanDigits(_, _, _)
ScanDigits(s, i, base) ==
    IF i <= Len(s) /\ DigitVal(s[i]) < base
    THEN ScanDigits(s, i + 1, base) ELSE i

\* Value of the digits s[i..e-1] in the base.
RECURSIVE DigitsValue(_, _, _, _, _)
DigitsValue(s, i, e, base, acc) ==
    IF i >= e THEN acc
    ELSE DigitsValue(s, i + 1, e, base, acc * base + DigitVal(s[i]))

\* strtoul(s, &end, base) with base 0 or 10, and the result stored in an
\* int: white space, an optional sign, with base 0 a 0x or 0 prefix, then
\* the digits of the base.  end is the index of the first character not
\* consumed (Len(s)+1 is the terminating NUL), and 1 when no digit was
\* found.  A negated value wraps as unsigned long and comes back negative
\* once stored in the int; the tokens here are too short to overflow.
Strtoul(s, base0) ==
    LET p == SkipSpace(s, 1)
        neg == p <= Len(s) /\ s[p] = "-"
        q == IF p <= Len(s) /\ s[p] \in {"+", "-"} THEN p + 1 ELSE p
        hex == /\ base0 = 0
               /\ q + 2 <= Len(s)
               /\ s[q] = "0"
               /\ s[q + 1] = "x"
               /\ DigitVal(s[q + 2]) < 16
        base == IF base0 # 0 THEN base0
                ELSE IF hex THEN 16
                ELSE IF q <= Len(s) /\ s[q] = "0" THEN 8
                ELSE 10
        d == IF hex THEN q + 2 ELSE q
        e == ScanDigits(s, d, base)
        v == DigitsValue(s, d, e, base, 0)
    IN  IF e = d THEN [end |-> 1, val |-> 0]
        ELSE [end |-> e, val |-> IF neg THEN 0 - v ELSE v]

\* ParseFails without the test for empty text.
ParseFails_mut(s) == Strtoul(s, 0).end # Len(s) + 1

\* *end != '\0' || args[k][0] == 0
ParseFails(s) == Strtoul(s, 0).end # Len(s) + 1 \/ Len(s) = 0

\* sprintf(buffer, "%d", n) for n >= 0
DigitChar(d) == <<"0", "1", "2", "3", "4", "5", "6", "7", "8", "9">>[d + 1]

\* Itoa with the digits written lowest first.
RECURSIVE Itoa_mut(_)
Itoa_mut(n) ==
    IF n < 10 THEN <<DigitChar(n)>>
    ELSE <<DigitChar(n % 10)>> \o Itoa_mut(n \div 10)

RECURSIVE Itoa(_)
Itoa(n) ==
    IF n < 10 THEN <<DigitChar(n)>>
    ELSE Append(Itoa(n \div 10), DigitChar(n % 10))

\* strtod(s, NULL) on decimal text: white space, an optional sign, digits,
\* an optional point and digits; 0 when no digit is found.  The value is
\* num / den.
Strtod(s) ==
    LET p == SkipSpace(s, 1)
        neg == p <= Len(s) /\ s[p] = "-"
        q == IF p <= Len(s) /\ s[p] \in {"+", "-"} THEN p + 1 ELSE p
        e1 == ScanDigits(s, q, 10)
        point == e1 <= Len(s) /\ s[e1] = "."
        e2 == IF point THEN ScanDigits(s, e1 + 1, 10) ELSE e1
        fd == IF point THEN e2 - (e1 + 1) ELSE 0
        ip == DigitsValue(s, q, e1, 10, 0)
        num == IF point THEN DigitsValue(s, e1 + 1, e2, 10, ip) ELSE ip
    IN  IF e1 = q /\ fd = 0 THEN [num |-> 0, den |-> 1]
        ELSE [num |-> IF neg THEN 0 - num ELSE num, den |-> 10 ^ fd]

\* ------------------------------------------------------------ delete
\* The cleanup branch taken when paths[i] failed to evaluate, with i the
\* number of paths evaluated before it:
\*     for (j = 0; j < i; ++i) free(paths[j]);
\*     free(paths); return NULL;
\* With i = 0 the loop body never runs.  With i > 0 the loop counts i up
\* instead of j: it releases paths[0] on every round and never reaches
\* paths[1..i-1].  The second release of paths[0] is undefined behaviour;
\* ub is what the build makes of it: the allocator kills the process
\* ("crashed"), the loop never ends ("hung"), or i wraps round, the loop
\* ends and the function returns NULL ("returned").
DeleteCleanup(i, n, ub) ==
    IF i = 0
    THEN Outcome({}, NoFrees(n), Abort, <<>>, <<EvalMsg>>, "returned")
    ELSE Outcome(1..i, [k \in 1..n |-> IF k = 1 THEN 2 ELSE 0],
                 IF ub = "returned" THEN Abort ELSE NoResult,
                 <<>>, <<EvalMsg>>, ub)

\* Number of true values among rm[1..i].
RECURSIVE CountOk(_, _)
CountOk(rm, i) ==
    IF i = 0 THEN 0 ELSE CountOk(rm, i - 1) + (IF rm[i] THEN 1 ELSE 0)

\* rm[i]: whether the removal of paths[i] succeeds.
DeleteFn(name, n, av, rm, ub) ==
    LET bad == IF \E i \in 1..n : ~av[i].ok
               THEN CHOOSE i \in 1..n :
                        ~av[i].ok /\ \A j \in 1..(i-1) : av[j].ok
               ELSE 0
        recursive == name = "delete_recursive"
    IN  IF bad # 0 THEN DeleteCleanup(bad - 1, n, ub)
        ELSE Outcome(1..n, FreeOnce(1..n, n),
                     NewResult(Itoa(CountOk(rm, n))),
                     [i \in 1..n |->
                         Op(IF recursive THEN "dirUnlinkHierarchy"
                                         ELSE "unlink",
                            <<av[i].val>>, rm[i])],
                     <<>>, "returned")

\* ------------------------------------------------------------ show_progress
ShowProgressFn(name, n, av) ==
    IF n # 2 THEN ArityAbort(n, ArityMsg(name, 2, FALSE, n))
    ELSE
    LET ra == ReadArgs(av, 1, 2, n) IN
    IF ~ra.ok THEN EvalAbort(ra)
    ELSE
    LET frac == Strtod(av[1].val)
        sec == Strtoul(av[2].val, 10).val
    IN  Outcome(1..2, FreeOnce(1..2, n), NewResult(EmptyStr),
                <<Op("progress", <<frac, sec>>, TRUE)>>, <<>>, "returned")

\* ------------------------------------------------------------ package_extract
\* struct utimbuf timestamp = { 1217592000, 1217592000 }
Timestamp == 1217592000

\* PackageExtractFn that stamps the files with the time of the call.
PackageExtractFn_now_mut(name, n, av, ex) ==
    IF n # 2 THEN ArityAbort(n, ArityMsg(name, 2, FALSE, n))
    ELSE
    LET ra == ReadArgs(av, 1, 2, n) IN
    IF ~ra.ok THEN EvalAbort(ra)
    ELSE Outcome(1..2, FreeOnce(1..2, n),
                 NewResult(IF ex THEN <<"t">> ELSE EmptyStr),
                 <<Op("mzExtractRecursive",
                      <<av[1].val, av[2].val, Timestamp + clock>>, ex)>>,
                 <<>>, "returned")

\* ex: whether mzExtractRecursive succeeds.
PackageExtractFn(name, n, av, ex) ==
    IF n # 2 THEN ArityAbort(n, ArityMsg(name, 2, FALSE, n))
    ELSE
    LET ra == ReadArgs(av, 1, 2, n) IN
    IF ~ra.ok THEN EvalAbort(ra)
    ELSE Outcome(1..2, FreeOnce(1..2, n),
                 NewResult(IF ex THEN <<"t">> ELSE EmptyStr),
                 <<Op("mzExtractRecursive",
                      <<av[1].val, av[2].val, Timestamp>>, ex)>>,
                 <<>>, "returned")

\* ------------------------------------------------------------ symlink
\* SymlinkFn as a function of three choices: the smallest argc it accepts
\* (minargs), whether the loop stops at the first link that cannot be made
\* (stop), and whether target is released when the sources fail to
\* evaluate (freetarget).
SymlinkVariant(name, n, av, ln, minargs, stop, freetarget) ==
    IF n < minargs THEN ArityAbort(n, ArityMsg(name, 1, TRUE, n))
    ELSE IF ~av[1].ok
    THEN Outcome({}, NoFrees(n), Abort, <<>>, <<EvalMsg>>, "returned")
    ELSE
    LET target == av[1].val
        ra == ReadArgs(av, 2, n, n)
        last == IF stop /\ \E k \in 1..(n - 1) : ~ln[k]
                THEN CHOOSE k \in 1..(n - 1) :
                         ~ln[k] /\ \A j \in 1..(k - 1) : ln[j]
                ELSE n - 1
    IN  IF ~ra.ok
        THEN Outcome({1} \cup ra.evald,
                     [i \in 1..n |-> IF i = 1
                                     THEN (IF freetarget THEN 1 ELSE 0)
                                     ELSE ra.freed[i]],
                     Abort, <<>>, ra.reports, "returned")
        ELSE Outcome(1..n, FreeOnce(2..n, n), NewResult(EmptyStr),
                     [k \in 1..last |->
                         Op("symlink", <<target, av[k + 1].val>>, ln[k])],
                     <<>>, "returned")

\* SymlinkFn that asks for a target and at least one source.
SymlinkFn_arity_mut(name, n, av, ln) ==
    SymlinkVariant(name, n, av, ln, 2, FALSE, TRUE)

\* SymlinkFn that gives up at the first link it cannot make.
SymlinkFn_stop_mut(name, n, av, ln) ==
    SymlinkVariant(name, n, av, ln, 1, TRUE, TRUE)

\* SymlinkFn that forgets target when the sources fail to evaluate.
SymlinkFn_leak_mut(name, n, av, ln) ==
    SymlinkVariant(name, n, av, ln, 1, FALSE, FALSE)

\* ln[i]: whether creating the link for source i succeeds.
SymlinkFn(name, n, av, ln) ==
    IF n = 0 THEN ArityAbort(n, ArityMsg(name, 1, TRUE, n))
    ELSE IF ~av[1].ok
    THEN Outcome({}, NoFrees(n), Abort, <<>>, <<EvalMsg>>, "returned")
    ELSE
    LET target == av[1].val
        ra == ReadArgs(av, 2, n, n)
    IN  IF ~ra.ok
        THEN Outcome({1} \cup ra.evald,
                     [i \in 1..n |-> IF i = 1 THEN 1 ELSE ra.freed[i]],
                     Abort, <<>>, ra.reports, "returned")
        \* each source is released in the loop; target is not released
        ELSE Outcome(1..n, FreeOnce(2..n, n), NewResult(EmptyStr),
                     [k \in 1..(n - 1) |->
                         Op("symlink", <<target, av[k + 1].val>>, ln[k])],
                     <<>>, "returned")

\* ------------------------------------------------------------ set_perm
\* done: for (i = 0; i < argc; ++i) free(args[i]); free(args);
\* SetPermDone that hands back the empty string whatever was reported.
SetPermDone_value_mut(n, result, log, reports) ==
    Outcome(1..n, FreeOnce(1..n, n), NewResult(EmptyStr), log, reports,
            "returned")

SetPermDone(n, result, log, reports) ==
    Outcome(1..n, FreeOnce(1..n, n), result, log, reports, "returned")

\* Index (from 1) of the first argument the loops over the targets visit:
\* both loops start at i = 4, counted from 0.
FirstTarget == 5

\* for (i = 4; i < argc; ++i) { chown(args[i], uid, gid);
\*                              chmod(args[i], mode); }
\* The results of chown and chmod are not looked at and not modelled.
ChownChmodLoop(n, av, uid, gid, mode) ==
    [j \in 1..(2 * (IF n >= FirstTarget THEN n - FirstTarget + 1 ELSE 0)) |->
        LET i == FirstTarget + ((j - 1) \div 2)
        IN  IF j % 2 = 1 THEN Op("chown", <<av[i].val, uid, gid>>, TRUE)
                         ELSE Op("chmod", <<av[i].val, mode>>, TRUE)]

\* for (i = 4; i < argc; ++i)
\*     dirSetHierarchyPermissions(args[i], uid, gid, dir_mode, file_mode);
HierarchyLoop(n, av, uid, gid, dir_mode, file_mode) ==
    [j \in 1..(IF n >= FirstTarget THEN n - FirstTarget + 1 ELSE 0) |->
        Op("dirSetHierarchyPermissions",
           <<av[FirstTarget + j - 1].val, uid, gid, dir_mode, file_mode>>,
           TRUE)]

\* The arity message has three conversions, "%s() expects %d+ args, got
\* %d", and is given two values, name and argc: the expected count prints
\* as argc, and the last conversion reads a value that was never passed
\* (g, indeterminate).
SetPermArityMsg(name, n, g) == ArityMsg(name, n, TRUE, g)

SetPermFn(name, n, av, g) ==
    LET recursive == name = "set_perm_recursive"
        min_args == 4 + (IF recursive THEN 1 ELSE 0)
    IN
    IF n < min_args THEN ArityAbort(n, SetPermArityMsg(name, n, g))
    ELSE
    LET ra == ReadArgs(av, 1, n, n) IN
    IF ~ra.ok THEN EvalAbort(ra)
    ELSE
    LET uid == Strtoul(av[1].val, 0).val
        gid == Strtoul(av[2].val, 0).val
        m2 == Strtoul(av[3].val, 0).val
        m3 == Strtoul(av[4].val, 0).val
    IN  IF ParseFails(av[1].val)
        THEN SetPermDone(n, Abort, <<>>,
                         ErrorAbort(InvalidMsg(name, av[1].val, "uid")))
        ELSE IF ParseFails(av[2].val)
        THEN SetPermDone(n, Abort, <<>>,
                         ErrorAbort(InvalidMsg(name, av[2].val, "gid")))
        ELSE IF recursive
        THEN IF ParseFails(av[3].val)
             THEN SetPermDone(n, Abort, <<>>,
                      ErrorAbort(InvalidMsg(name, av[3].val, "dirmode")))
             ELSE IF ParseFails(av[4].val)
             THEN SetPermDone(n, Abort, <<>>,
                      ErrorAbort(InvalidMsg(name, av[4].val, "filemode")))
             ELSE SetPermDone(n, NewResult(EmptyStr),
                              HierarchyLoop(n, av, uid, gid, m2, m3), <<>>)
        ELSE IF ParseFails(av[3].val)
             THEN SetPermDone(n, Abort, <<>>,
                      ErrorAbort(InvalidMsg(name, av[3].val, "mode")))
             ELSE SetPermDone(n, NewResult(EmptyStr),
                              ChownChmodLoop(n, av, uid, gid, m2), <<>>)

\* ------------------------------------------------------------ inputs
Names == {"mount", "unmount", "format", "show_progress", "delete",
          "delete_recursive", "package_extract", "symlink", "set_perm",
          "set_perm_recursive"}

\* Values an indeterminate int is drawn from.
Indeterminate == {-1, 0, 4}

\* Text handed to the numeric arguments of set_perm.
UidTokens == {EmptyStr, <<"0">>, <<"0", "1", "7">>, <<"0", "x", "1", "f">>,
              <<"0", "x">>, <<" ", "7">>, <<"-", "7">>, <<"0", "8">>,
              <<"7", "a">>}
GidTokens == {EmptyStr, <<"0">>, <<"9", "a">>}
ModeTokens == {EmptyStr, <<"0", "7">>, <<"7", " ">>}
PathTokens == {PathA, PathB}

\* The nodes argument i (from 1) of a call to the builtin is drawn from.
NodesAt(name, i) ==
    CASE name = "mount" /\ i = 1 -> Nodes({EmptyStr, MTD, Vfat})
      [] name = "mount" /\ i = 2 -> Nodes({EmptyStr, Boot})
      [] name = "mount" /\ i = 3 -> Nodes({EmptyStr, MntX})
      [] name = "unmount" /\ i = 1 -> Nodes({EmptyStr, MntX})
      [] name = "format" /\ i = 1 -> Nodes({EmptyStr, MTD, Vfat})
      [] name = "format" /\ i = 2 -> Nodes({EmptyStr, Boot})
      [] name = "show_progress" /\ i = 1 ->
             Nodes({<<"0", ".", "5">>, <<"1">>, <<"a">>})
      [] name = "show_progress" /\ i = 2 ->
             Nodes({<<"1", "0">>, <<"7", "a">>, EmptyStr})
      [] name = "package_extract" /\ i = 1 -> Nodes({PathA})
      [] name = "package_extract" /\ i = 2 -> Nodes({PathB})
      [] name = "symlink" /\ i = 1 -> Nodes({PathA})
      [] name = "symlink" /\ i > 1 -> Nodes(PathTokens)
      [] name \in {"set_perm", "set_perm_recursive"} /\ i = 1 ->
             Nodes(UidTokens)
      [] name \in {"set_perm", "set_perm_recursive"} /\ i = 2 ->
             Nodes(GidTokens)
      [] name \in {"set_perm", "set_perm_recursive"} /\ i = 3 ->
             Nodes(ModeTokens)
      [] name = "set_perm_recursive" /\ i = 4 -> Nodes(ModeTokens)
      [] name \in {"set_perm", "set_perm_recursive"} /\ i > 3 ->
             Nodes(PathTokens)
      [] OTHER -> Nodes({PathA})

\* The argument lists of length n a call to the builtin is made with.  The
\* nodes after one that fails to evaluate are never looked at, so one list
\* is taken for each failing prefix.
RECURSIVE Argvs(_, _)
Argvs(name, n) ==
    IF n = 0 THEN {<<>>}
    ELSE UNION {{Append(av, x) :
                    x \in IF \E i \in 1..(n - 1) : ~av[i].ok
                          THEN {Ok(PathA)} ELSE NodesAt(name, n)} :
                av \in Argvs(name, n - 1)}

\* The argument lists of length n delete is called with: every path
\* evaluates, or exactly one does not.
DeleteArgvs(n) ==
    {[i \in 1..n |-> IF i = k THEN Fail
                     ELSE Ok(IF i % 2 = 1 THEN PathA ELSE PathB)] :
        k \in 0..n}

\* The removal outcomes delete is run with.
RmPatterns(n) ==
    IF n <= MaxAnyRm THEN [1..n -> BOOLEAN]
    ELSE {[i \in 1..n |-> i # k] : k \in 0..n}

\* ------------------------------------------------------------ state
VARIABLES
    status,   \* "idle", or how the last invocation ended
    fn,       \* the name the builtin was invoked by
    argc,     \* its argument count
    argv,     \* its argument nodes
    evald,    \* the arguments it evaluated
    freed,    \* how often it released each evaluated string
    result,   \* what it returned
    log,      \* the driver calls it made, in order
    reports,  \* the messages it handed to SetError
    error     \* the pending error slot

vars == <<status, fn, argc, argv, evald, freed, result, log, reports, error,
          clock>>

Init ==
    /\ status = "idle"
    /\ fn = "none"
    /\ argc = 0
    /\ argv = <<>>
    /\ evald = {}
    /\ freed = <<>>
    /\ result = NoResult
    /\ log = <<>>
    /\ reports = <<>>
    /\ error = NoError
    /\ clock = 0

\* SetError: the slot holds the last message handed to it.
\* SetError that keeps a message already pending.
SetError_keep_mut(slot, msgs) ==
    IF slot # NoError \/ Len(msgs) = 0 THEN slot ELSE msgs[Len(msgs)]

SetError(slot, msgs) == IF Len(msgs) = 0 THEN slot ELSE msgs[Len(msgs)]

\* The evaluator calls the builtin registered under name, once the call
\* before it has been dealt with (status = "idle").
Invoke(name, n, av, out) ==
    /\ status' = out.status
    /\ fn' = name
    /\ argc' = n
    /\ argv' = av
    /\ evald' = out.evald
    /\ freed' = out.freed
    /\ result' = out.result
    /\ log' = out.log
    /\ reports' = out.reports
    /\ error' = SetError(error, out.reports)
    /\ UNCHANGED clock

Mount ==
    \E n \in 0..(3 + MaxExtra) : \E av \in Argvs("mount", n) :
    \E mk, found, mnt \in BOOLEAN :
        /\ status = "idle"
        /\ Invoke("mount", n, av, MountFn("mount", n, av, mk, found, mnt))

Unmount ==
    \E n \in 0..(1 + MaxExtra) : \E av \in Argvs("unmount", n) :
    \E found, umnt \in BOOLEAN :
        /\ status = "idle"
        /\ Invoke("unmount", n, av, UnmountFn("unmount", n, av, found, umnt))

Format ==
    \E n \in 0..(2 + MaxExtra) : \E av \in Argvs("format", n) :
    \E found, opened, erased, closed \in BOOLEAN :
        /\ status = "idle"
        /\ Invoke("format", n, av,
                  FormatFn("format", n, av, found, opened, erased, closed))

Delete ==
    \E name \in {"delete", "delete_recursive"} :
    \E n \in 0..MaxDelArgc : \E av \in DeleteArgvs(n) :
    \E rm \in IF \A i \in 1..n : av[i].ok THEN RmPatterns(n)
              ELSE {[i \in 1..n |-> TRUE]} :
    \E ub \in IF \E i \in 2..n : ~av[i].ok
              THEN {"crashed", "hung", "returned"} ELSE {"returned"} :
        /\ status = "idle"
        /\ Invoke(name, n, av, DeleteFn(name, n, av, rm, ub))

ShowProgress ==
    \E n \in 0..(2 + MaxExtra) : \E av \in Argvs("show_progress", n) :
        /\ status = "idle"
        /\ Invoke("show_progress", n, av, ShowProgressFn("show_progress", n, av))

PackageExtract ==
    \E n \in 0..(2 + MaxExtra) : \E av \in Argvs("package_extract", n) :
    \E ex \in BOOLEAN :
        /\ status = "idle"
        /\ Invoke("package_extract", n, av,
                  PackageExtractFn("package_extract", n, av, ex))

Symlink ==
    \E n \in 0..(1 + MaxTargets) : \E av \in Argvs("symlink", n) :
    \E ln \in [1..(n - 1) -> BOOLEAN] :
        /\ status = "idle"
        /\ Invoke("symlink", n, av, SymlinkFn("symlink", n, av, ln))

SetPerm ==
    \E name \in {"set_perm", "set_perm_recursive"} :
    \E n \in 0..((IF name = "set_perm" THEN 3 ELSE 4) + MaxTargets) :
    \E av \in Argvs(name, n) :
    \E g \in IF n < 4 \/ (n = 4 /\ name # "set_perm") THEN Indeterminate
             ELSE {0} :
        /\ status = "idle"
        /\ Invoke(name, n, av, SetPermFn(name, n, av, g))

\* The evaluator takes the result and goes on to the next call.  Only the
\* pending error slot is carried over.
Continue ==
    /\ status = "returned"
    /\ status' = "idle"
    /\ fn' = "none"
    /\ argc' = 0
    /\ argv' = <<>>
    /\ evald' = {}
    /\ freed' = <<>>
    /\ result' = NoResult
    /\ log' = <<>>
    /\ reports' = <<>>
    /\ UNCHANGED <<error, clock>>

\* Time passes between two calls.  No builtin reads the clock.
Tick ==
    /\ status = "idle"
    /\ clock < MaxClock
    /\ clock' = clock + 1
    /\ UNCHANGED <<status, fn, argc, argv, evald, freed, result, log,
                   reports, error>>

Next ==
    \/ Mount
    \/ Unmount
    \/ Format
    \/ Delete
    \/ ShowProgress
    \/ PackageExtract
    \/ Symlink
    \/ SetPerm
    \/ Continue
    \/ Tick

Spec == Init /\ [][Next]_vars

\* ------------------------------------------------------------ properties
\* An invocation has ended (returned, or the process died or hangs).
Ended == status # "idle"
Returned == status = "returned"
AllEvaluate == \A i \in 1..argc : argv[i].ok
DeleteNames == {"delete", "delete_recursive"}
PermNames == {"set_perm", "set_perm_recursive"}
ReturnedArg(i) == result.kind = "arg" /\ result.idx = i
LastReport == reports[Len(reports)]

\* C1: every argument string that was evaluated is either released exactly
\* once or handed back as the return value, never both and never neither,
\* for every builtin and every way the invocation ends.
C1_ReleasedExactlyOnce ==
    Ended =>
        \A i \in evald :
            \/ freed[i] = 1 /\ ~ReturnedArg(i)
            \/ freed[i] = 0 /\ ReturnedArg(i)

\* C2: whenever a builtin returns the abort signal, a message was recorded
\* in the error sink during that invocation and is the pending error.
C2_AbortHasMessage ==
    (Returned /\ result = Abort) =>
        (Len(reports) > 0 /\ error = LastReport)

\* C3: format(type, location) with non-empty arguments and a type other
\* than "MTD" returns an owned empty string, not the abort signal, and
\* makes no partition driver call.
C3_FormatUnsupportedIsSoft ==
    (/\ Ended
     /\ fn = "format"
     /\ argc = 2
     /\ AllEvaluate
     /\ argv[1].val # EmptyStr
     /\ argv[2].val # EmptyStr
     /\ argv[1].val # MTD)
    => (Returned /\ result = NewResult(EmptyStr) /\ Len(log) = 0)

\* Index of the first argument that fails to evaluate, 0 if there is none.
FirstFailing ==
    IF AllEvaluate THEN 0
    ELSE CHOOSE k \in 1..argc :
             ~argv[k].ok /\ \A j \in 1..(k - 1) : argv[j].ok

\* C4: in delete and delete_recursive, if evaluation of the k-th path
\* fails, the builtin returns abort, having released each of the k-1 paths
\* evaluated before it exactly once and having removed nothing.
C4_DeleteEvalFailureReleasesPrefix ==
    (Ended /\ fn \in DeleteNames /\ ~AllEvaluate) =>
        /\ Returned
        /\ result = Abort
        /\ \A i \in 1..(FirstFailing - 1) : freed[i] = 1
        /\ Len(log) = 0

\* The paths handed to the driver calls named op, in call order.
PathsOf(op) ==
    LET calls == SelectSeq(log, LAMBDA e : e.op = op)
    IN  [j \in 1..Len(calls) |-> calls[j].args[1]]

\* The texts of the arguments from..argc, in argument order.
ArgTexts(from) == [j \in 1..(argc - from + 1) |-> argv[from + j - 1].val]

\* Text that is a number as a whole: optional white space, an optional
\* sign, then 0x and hexadecimal digits, or 0 and octal digits, or decimal
\* digits not starting with 0.
OctDigits == {"0", "1", "2", "3", "4", "5", "6", "7"}
DecDigits == OctDigits \cup {"8", "9"}
HexDigits == DecDigits \cup {"a", "b", "c", "d", "e", "f"}
NumberBody(b) ==
    /\ Len(b) > 0
    /\ \/ /\ Len(b) >= 3
          /\ b[1] = "0"
          /\ b[2] = "x"
          /\ \A i \in 3..Len(b) : b[i] \in HexDigits
       \/ /\ b[1] = "0"
          /\ \A i \in 2..Len(b) : b[i] \in OctDigits
       \/ /\ b[1] \in DecDigits \ {"0"}
          /\ \A i \in 2..Len(b) : b[i] \in DecDigits
FullyNumeric(s) ==
    \E p \in 0..Len(s) :
        /\ \A i \in 1..p : s[i] = " "
        /\ \/ NumberBody(SubSeq(s, p + 1, Len(s)))
           \/ /\ p < Len(s)
              /\ s[p + 1] \in {"+", "-"}
              /\ NumberBody(SubSeq(s, p + 2, Len(s)))
Malformed(s) == s = EmptyStr \/ ~FullyNumeric(s)

\* The smallest argc set_perm / set_perm_recursive accept, and how many of
\* their leading arguments are numbers.
MinArgs(name) == IF name = "set_perm_recursive" THEN 5 ELSE 4
NumericArgs(name) == IF name = "set_perm_recursive" THEN 4 ELSE 3

\* C5: when uid, gid and the mode(s) all parse, set_perm applies chown and
\* chmod to every argument after mode, and set_perm_recursive applies the
\* hierarchy walk to every argument after file_mode, in argument order.
C5_EveryTargetVisited ==
    (/\ Ended
     /\ fn \in PermNames
     /\ argc >= MinArgs(fn)
     /\ AllEvaluate
     /\ \A k \in 1..NumericArgs(fn) : ~Malformed(argv[k].val))
    => IF fn = "set_perm"
       THEN /\ PathsOf("chown") = ArgTexts(4)
            /\ PathsOf("chmod") = ArgTexts(4)
       ELSE PathsOf("dirSetHierarchyPermissions") = ArgTexts(5)

\* The argument count each builtin asks for: exactly (plus = FALSE) or at
\* least (plus = TRUE) that many.
ArityNames == Names \ DeleteNames
Required(name) ==
    CASE name = "mount" -> 3
      [] name = "unmount" -> 1
      [] name \in {"format", "show_progress", "package_extract"} -> 2
      [] name = "symlink" -> 1
      [] name = "set_perm" -> 4
      [] name = "set_perm_recursive" -> 5
      [] OTHER -> 0
AtLeast(name) == name \in {"symlink", "set_perm", "set_perm_recursive"}
ArityViolated ==
    IF AtLeast(fn) THEN argc < Required(fn) ELSE argc # Required(fn)

\* C6: a call with a violating argument count returns abort with a
\* recorded message that names the function, the expected count and the
\* actual count; no argument is evaluated and no driver call is made.
C6_ArityViolationAborts ==
    (Ended /\ fn \in ArityNames /\ ArityViolated) =>
        /\ Returned
        /\ result = Abort
        /\ reports = <<ArityMsg(fn, Required(fn), AtLeast(fn), argc)>>
        /\ error = reports[1]
        /\ evald = {}
        /\ Len(log) = 0

\* Index of the first numeric argument of a set_perm call whose text is
\* malformed, 0 if there is none.
FirstMalformed ==
    IF \A k \in 1..NumericArgs(fn) : ~Malformed(argv[k].val) THEN 0
    ELSE CHOOSE k \in 1..NumericArgs(fn) :
             /\ Malformed(argv[k].val)
             /\ \A j \in 1..(k - 1) : ~Malformed(argv[j].val)

\* C7: in set_perm and set_perm_recursive, if any of uid, gid or the
\* mode(s) is empty or not fully numeric, the builtin returns abort with
\* one recorded message that names the first such token, and it has made
\* no chown, chmod or hierarchy-permission call, whichever of the numeric
\* arguments is malformed.
C7_MalformedNumberAborts ==
    (/\ Ended
     /\ fn \in PermNames
     /\ argc >= MinArgs(fn)
     /\ AllEvaluate
     /\ FirstMalformed # 0)
    => /\ Returned
       /\ result = Abort
       /\ Len(reports) = 1
       /\ reports[1].kind = "invalid"
       /\ reports[1].fn = fn
       /\ reports[1].token = argv[FirstMalformed].val
       /\ error = reports[1]
       /\ Len(log) = 0

\* C7 witness: set_perm_recursive aborted on a malformed file_mode after
\* uid, gid and dir_mode parsed.
C7_Witness ==
    /\ Returned
    /\ fn = "set_perm_recursive"
    /\ argc >= 5
    /\ AllEvaluate
    /\ FirstMalformed = 4
    /\ result = Abort
    /\ reports[1].what = "filemode"

\* Some call of the driver operation op in the log succeeded.
Succeeded(op) == \E i \in 1..Len(log) : log[i].op = op /\ log[i].ok
Failed(op) == \E i \in 1..Len(log) : log[i].op = op /\ ~log[i].ok

\* C8: unmount returns mount_point only when the volume was found and the
\* unmount driver call succeeded; a failed unmount driver call yields an
\* owned empty string.
C8_UnmountFailureIsSoft ==
    (Returned /\ fn = "unmount") =>
        /\ ReturnedArg(1) =>
               (/\ Succeeded("find_mounted_volume_by_mount_point")
                /\ Succeeded("unmount_mounted_volume"))
        /\ Failed("unmount_mounted_volume") => result = NewResult(EmptyStr)

\* Value of decimal text.
RECURSIVE DecimalValue(_)
DecimalValue(s) ==
    IF Len(s) = 0 THEN 0
    ELSE 10 * DecimalValue(SubSeq(s, 1, Len(s) - 1))
         + (CHOOSE d \in 0..9 :
                <<"0", "1", "2", "3", "4", "5", "6", "7", "8", "9">>[d + 1]
                    = s[Len(s)])
IsDecimal(s) ==
    /\ Len(s) > 0
    /\ \A i \in 1..Len(s) : s[i] \in DecDigits
    /\ Len(s) > 1 => s[1] # "0"

\* C9: when all path arguments evaluate, delete / delete_recursive
\* attempts the removal of every path in argument order, whatever the
\* earlier removals did, and returns a fresh non-empty string: the decimal
\* count of the removals that succeeded ("0" for no arguments).
C9_DeleteCountsRemovals ==
    (Ended /\ fn \in DeleteNames /\ AllEvaluate) =>
        /\ Returned
        /\ PathsOf(IF fn = "delete" THEN "unlink" ELSE "dirUnlinkHierarchy")
               = ArgTexts(1)
        /\ Len(log) = argc
        /\ result.kind = "new"
        /\ IsDecimal(result.str)
        /\ DecimalValue(result.str)
               = Cardinality({i \in 1..Len(log) : log[i].ok})

\* C9 witness: delete of three paths of which the second cannot be removed
\* returned "2".
C9_Witness ==
    /\ Returned
    /\ fn = "delete"
    /\ argc = 3
    /\ AllEvaluate
    /\ Len(log) = 3
    /\ log[1].ok /\ ~log[2].ok /\ log[3].ok
    /\ result = NewResult(<<"2">>)

\* C10: for mount with three non-empty evaluated arguments, the result is
\* the mount_point string itself, not released, if and only if the selected
\* driver mount succeeded (mtd_mount_partition for "MTD", after the
\* partition was found; mount otherwise); in every other case the result
\* is a fresh empty string and mount_point is released once.
C10_MountResult ==
    (/\ Ended
     /\ fn = "mount"
     /\ argc = 3
     /\ AllEvaluate
     /\ \A i \in 1..3 : argv[i].val # EmptyStr)
    => LET mounted ==
               IF argv[1].val = MTD
               THEN /\ Succeeded("mtd_find_partition_by_name")
                    /\ Succeeded("mtd_mount_partition")
               ELSE Succeeded("mount")
       IN  /\ Returned
           /\ mounted => (result = ArgResult(3, argv[3].val) /\ freed[3] = 0)
           /\ ~mounted => (result = NewResult(EmptyStr) /\ freed[3] = 1)

\* C10 witness: a raw-flash mount that succeeded returned mount_point.
C10_Witness ==
    /\ Returned
    /\ fn = "mount"
    /\ argc = 3
    /\ AllEvaluate
    /\ argv[1].val = MTD
    /\ Succeeded("mtd_mount_partition")
    /\ result = ArgResult(3, MntX)
    /\ freed = <<1, 1, 0>>

\* A mount call with three evaluated, non-empty arguments.
MountRuns ==
    /\ Ended
    /\ fn = "mount"
    /\ argc = 3
    /\ AllEvaluate
    /\ \A i \in 1..3 : argv[i].val # EmptyStr

\* C11: for mount with three non-empty evaluated arguments, mkdir of
\* mount_point is attempted exactly once and before any partition scan,
\* lookup or mount call; whether it succeeds or fails, the next step is
\* taken all the same; mount("MTD", <absent partition>, mp) makes the
\* directory, makes no mount call and returns the empty string.
C11_MkdirFirstAndIgnored ==
    MountRuns =>
        /\ Returned
        /\ Len(log) >= 2
        /\ log[1].op = "mkdir"
        /\ log[1].args = <<argv[3].val>>
        /\ \A i \in 2..Len(log) : log[i].op # "mkdir"
        /\ log[2].op = IF argv[1].val = MTD THEN "mtd_scan_partitions"
                                           ELSE "mount"
        /\ (argv[1].val = MTD /\ Failed("mtd_find_partition_by_name")) =>
               /\ \A i \in 1..Len(log) :
                      log[i].op \notin {"mtd_mount_partition", "mount"}
               /\ result = NewResult(EmptyStr)

\* C11 witness: mount("MTD", <absent partition>, "/m") whose mkdir failed
\* went on to the lookup and returned the empty string.
C11_Witness ==
    /\ MountRuns
    /\ argv[1].val = MTD
    /\ ~log[1].ok
    /\ Failed("mtd_find_partition_by_name")
    /\ result = NewResult(EmptyStr)

\* A format call on "MTD" with two evaluated, non-empty arguments.
FormatMtdRuns ==
    /\ Ended
    /\ fn = "format"
    /\ argc = 2
    /\ AllEvaluate
    /\ argv[1].val = MTD
    /\ argv[2].val # EmptyStr
FormatSteps == <<"mtd_scan_partitions", "mtd_find_partition_by_name",
                 "mtd_write_partition", "mtd_erase_blocks",
                 "mtd_write_close">>

\* C12: format("MTD", location) with non-empty arguments returns the
\* location string if and only if the lookup, the open, the erase and the
\* close all succeeded, in that order; if one of them fails the result is
\* the empty string, never abort, and no later step is made except the
\* close of a write context that was opened.
C12_FormatMtdResult ==
    FormatMtdRuns =>
        /\ Returned
        /\ Len(log) \in 2..5
        /\ \A i \in 1..Len(log) : log[i].op = FormatSteps[i]
        /\ ~log[2].ok => Len(log) = 2
        /\ log[2].ok => Len(log) >= 3
        /\ (Len(log) >= 3 /\ ~log[3].ok) => Len(log) = 3
        /\ (Len(log) >= 3 /\ log[3].ok) => Len(log) = 5
        /\ result = IF Len(log) = 5 /\ \A i \in 2..5 : log[i].ok
                    THEN ArgResult(2, argv[2].val)
                    ELSE NewResult(EmptyStr)

\* C12 witness: format("MTD", "boot") whose close failed returned the
\* empty string.
C12_Witness ==
    /\ FormatMtdRuns
    /\ argv[2].val = Boot
    /\ Len(log) = 5
    /\ log[4].ok
    /\ ~log[5].ok
    /\ result = NewResult(EmptyStr)

\* Number of calls of the driver operation op in the log.
Calls(op) == Cardinality({i \in 1..Len(log) : log[i].op = op})

\* C20: in format, a write context that was opened is closed exactly once
\* before the builtin returns, after a failed erase, after a failed close
\* and on success alike; mtd_write_close is never called twice, and never
\* when the open failed or was not attempted.
C20_WriteContextClosedOnce ==
    (Ended /\ fn = "format") =>
        /\ Returned
        /\ Calls("mtd_write_partition") <= 1
        /\ Calls("mtd_write_close")
               = (IF Succeeded("mtd_write_partition") THEN 1 ELSE 0)
        /\ \A i \in 1..Len(log) :
               log[i].op = "mtd_write_close" =>
                   /\ i = Len(log)
                   /\ \E j \in 1..(i - 1) :
                          log[j].op = "mtd_write_partition" /\ log[j].ok

\* C20 witness: a format whose erase failed closed the write context once.
C20_Witness ==
    /\ FormatMtdRuns
    /\ Failed("mtd_erase_blocks")
    /\ Calls("mtd_write_close") = 1
    /\ result = NewResult(EmptyStr)

\* C13 as stated: symlink called with a target and no source (argc = 1) is
\* an arity error: it returns abort with a recorded arity message before
\* any argument, the target included, is evaluated.
C13_NoSourceIsArityError ==
    (Ended /\ fn = "symlink" /\ argc = 1) =>
        /\ Returned
        /\ result = Abort
        /\ Len(reports) = 1
        /\ reports[1].kind = "arity"
        /\ evald = {}

\* C13 amended: symlink called with no argument at all (argc = 0) is an
\* arity error: it returns abort with the recorded message "symlink()
\* expects 1+ args, got 0" and evaluates nothing.  Called with a target
\* and no source (argc = 1) it is not an arity error: the target is
\* evaluated, no arity message is recorded and no link is made.
C13_OnlyNoArgumentIsArityError ==
    /\ (Ended /\ fn = "symlink" /\ argc = 0) =>
           /\ Returned
           /\ result = Abort
           /\ reports = <<ArityMsg("symlink", 1, TRUE, 0)>>
           /\ error = reports[1]
           /\ evald = {}
           /\ Len(log) = 0
    /\ (Ended /\ fn = "symlink" /\ argc = 1) =>
           /\ Returned
           /\ \A i \in 1..Len(reports) : reports[i].kind # "arity"
           /\ argv[1].ok => 1 \in evald
           /\ Len(log) = 0

\* C13 witness: symlink("/a") evaluated its target and recorded nothing.
C13_Witness ==
    /\ Returned
    /\ fn = "symlink"
    /\ argc = 1
    /\ argv[1].ok
    /\ evald = {1}
    /\ Len(reports) = 0

\* C14: when the target and all sources evaluate, symlink attempts one
\* link for every source in argument order, each pointing at target, goes
\* on after a link that cannot be made, and returns a fresh empty string
\* whatever the outcomes of the links.
C14_SymlinkBestEffort ==
    (Ended /\ fn = "symlink" /\ argc >= 1 /\ AllEvaluate) =>
        /\ Returned
        /\ result = NewResult(EmptyStr)
        /\ Len(log) = argc - 1
        /\ \A k \in 1..(argc - 1) :
               /\ log[k].op = "symlink"
               /\ log[k].args = <<argv[1].val, argv[k + 1].val>>

\* C14 witness: symlink with two sources whose first link could not be
\* made still made the second and returned the empty string.
C14_Witness ==
    /\ Returned
    /\ fn = "symlink"
    /\ argc = 3
    /\ AllEvaluate
    /\ Len(log) = 2
    /\ ~log[1].ok
    /\ log[2].ok
    /\ result = NewResult(EmptyStr)

\* C17: symlink evaluates the target before any source.  If the target
\* fails to evaluate it aborts with no source evaluated and nothing
\* released; if a source fails to evaluate it releases the target exactly
\* once and aborts.  In both cases no link has been attempted.
C17_SymlinkEvaluationOrder ==
    (Ended /\ fn = "symlink" /\ argc >= 1) =>
        /\ evald # {} => 1 \in evald
        /\ ~argv[1].ok =>
               /\ Returned
               /\ result = Abort
               /\ evald = {}
               /\ \A i \in 1..argc : freed[i] = 0
               /\ Len(log) = 0
        /\ (argv[1].ok /\ ~AllEvaluate) =>
               /\ Returned
               /\ result = Abort
               /\ 1 \in evald
               /\ freed[1] = 1
               /\ Len(log) = 0

\* C17 witness: symlink whose second source failed to evaluate released
\* the target and the first source and aborted.
C17_Witness ==
    /\ Returned
    /\ fn = "symlink"
    /\ argc = 3
    /\ argv[1].ok /\ argv[2].ok /\ ~argv[3].ok
    /\ evald = {1, 2}
    /\ freed[1] = 1
    /\ result = Abort

\* C15: once both arguments evaluated, package_extract makes exactly one
\* extraction call, always with the same fixed timestamp, whatever the
\* wall clock shows and whatever earlier invocations left behind; it
\* returns "t" if the extraction succeeded and the empty string if it
\* failed, never abort.
C15_ExtractFixedTimestamp ==
    (Ended /\ fn = "package_extract" /\ argc = 2 /\ AllEvaluate) =>
        /\ Returned
        /\ Len(log) = 1
        /\ log[1].op = "mzExtractRecursive"
        /\ log[1].args = <<argv[1].val, argv[2].val, Timestamp>>
        /\ result = IF log[1].ok THEN NewResult(<<"t">>)
                                 ELSE NewResult(EmptyStr)
        /\ Len(reports) = 0

\* C15 witness: an extraction made after time has passed and after an
\* earlier invocation aborted, which succeeded and returned "t".
C15_Witness ==
    /\ Returned
    /\ fn = "package_extract"
    /\ argc = 2
    /\ AllEvaluate
    /\ clock > 0
    /\ error # NoError
    /\ Len(log) = 1
    /\ log[1].ok
    /\ result = NewResult(<<"t">>)

\* The messages a builtin hands to ErrorAbort itself (the evaluator
\* records its own message when a node fails to evaluate).
OwnKinds == {"arity", "empty", "invalid"}

\* C16: an invocation in which ErrorAbort was called returns the abort
\* signal and no string, and ErrorAbort is called at most once in one
\* invocation; no invocation that recorded a message returns a string.
C16_AbortReportedOnceAndReturned ==
    Ended =>
        /\ Len(reports) <= 1
        /\ (\E i \in 1..Len(reports) : reports[i].kind \in OwnKinds) =>
               (Returned /\ result = Abort)
        /\ (Returned /\ Len(reports) > 0) => result = Abort

\* C16 witness: set_perm given a malformed number reported it once and
\* returned abort.
C16_Witness ==
    /\ Returned
    /\ fn \in PermNames
    /\ Len(reports) = 1
    /\ reports[1].kind = "invalid"
    /\ result = Abort

\* C18: the error slot holds one message; an invocation that reported
\* leaves in it the message reported last, whatever was pending before,
\* an invocation that returns a string leaves it as it was, and nothing
\* but an invocation changes it.
C18_LastAbortMessageSurvives ==
    [][ /\ (status = "idle" /\ status' # "idle") =>
               /\ Len(reports') > 0 => error' = reports'[Len(reports')]
               /\ Len(reports') = 0 => error' = error
               /\ result'.kind \in {"arg", "new"} => error' = error
        /\ status # "idle" => error' = error
        /\ (status = "idle" /\ status' = "idle") => error' = error
      ]_vars

\* C18 witness: an earlier invocation left a message pending, and an
\* invocation that returned a string has not touched it.
C18_Witness ==
    /\ Returned
    /\ result.kind = "new"
    /\ Len(reports) = 0
    /\ error # NoError
    /\ error.kind \in OwnKinds

\* Driver calls that change storage or the progress display (lookups and
\* scans do not).
Mutating ==
    {"mkdir", "mount", "mtd_mount_partition", "unmount_mounted_volume",
     "mtd_write_partition", "mtd_erase_blocks", "mtd_write_close",
     "unlink", "dirUnlinkHierarchy", "symlink", "chown", "chmod",
     "dirSetHierarchyPermissions", "mzExtractRecursive", "progress"}

\* C19: an invocation that returns the abort signal made no mutating
\* driver call.
C19_AbortHasNoStorageEffect ==
    (Returned /\ result = Abort) =>
        \A i \in 1..Len(log) : log[i].op \notin Mutating

\* C19 witness: mount given an empty mount_point, after all three
\* arguments evaluated, aborted without a driver call.
C19_Witness ==
    /\ Returned
    /\ fn = "mount"
    /\ argc = 3
    /\ AllEvaluate
    /\ result = Abort
    /\ Len(reports) = 1
    /\ reports[1].kind = "empty"
    /\ Len(log) = 0

====
